---- MODULE Spec2Model ----
(***************************************************************************)
(* A model of rosedb's list datatype (LPush .. listSequence), hash         *)
(* datatype (HSet .. HTTL) and string index (MemoryBTree).                 *)
(*                                                                         *)
(* uint32 values are kept as two 16-bit halves <<hi, lo>> so that every    *)
(* sequence number keeps its 32-bit width: 2^31 is <<32768, 0>>.           *)
(* A Go int index is kept as [neg, q, r]: its magnitude is q * 2^32 + r.   *)
(***************************************************************************)
EXTENDS Integers, Sequences, FiniteSets, TLC

\* ---------------------------------------------------------------- bounds
\* elements held by all lists together, and how far a head or tail sequence
\* moves away from its initial value, while the log is reliable (SpecList)
MaxPush == 3
MaxSeq == 2
\* the same two bounds while log writes may fail (SpecListIO)
MaxPushIO == 1
MaxSeqIO == 1
\* log writes that fail in one behaviour of SpecListIO, which ends with the last
MaxIoFail == 1
\* values given to one LPush/RPush/LPushX/RPushX call
MaxVals == 2
\* largest index magnitude (below 2^32) given to LIndex / LSet / LRange
MaxIdx == 3
\* the clock of the hash datatype runs from 0 to MaxNow
MaxNow == 2
\* hash writer calls that run together before all of them have returned
MaxBatch == 2
\* pairs given to one HMSet call, fields given to one HDel call
MaxArgs == 2
\* largest duration given to HExpire
MaxDuration == 1
\* largest key of the string index
MaxBKey == 2
\* capacity of db.discards[List].valChan
MaxChan == 1
\* how far a head sequence moves left of its initial value while list writers
\* run as threads (SpecListChan)
MaxChanSeq == 1
\* most entries appended to the hash log files
MaxAppend == 3
\* entries in the list log files beyond which no list command starts
MaxListAppend == 5
\* bytes of a log entry before its key
EntryHeaderSize == 4
\* the per-file budget of the hash and of the list log files
BlockSize == 10
ListBlockSize == 40

ListKeys == {"L1", "L2"}
Vals == {"a", "b"}
Threads == {1, 2}

\* ------------------------------------------------------- uint32 arithmetic
W16 == 256 * 256

u32(n) == <<(n \div W16) % W16, n % W16>>

u32add(a, b) ==
    LET lo == a[2] + b[2]
    IN  <<(a[1] + b[1] + (lo \div W16)) % W16, lo % W16>>

u32sub(a, b) ==
    LET lo == a[2] - b[2]
        borrow == IF lo < 0 THEN 1 ELSE 0
    IN  <<(a[1] - b[1] - borrow + W16) % W16, (lo + W16) % W16>>

u32lt(a, b) == a[1] < b[1] \/ (a[1] = b[1] /\ a[2] < b[2])

u32le(a, b) == a = b \/ u32lt(a, b)

\* int(x) of a uint32 x (a 64-bit int holds every uint32)
toInt(a) == a[1] * W16 + a[2]

\* binary.LittleEndian.PutUint32 / Uint32
PutUint32(a) == <<a[2] % 256, a[2] \div 256, a[1] % 256, a[1] \div 256>>

Uint32(b) == <<b[3] + 256 * b[4], b[1] + 256 * b[2]>>

\* A Go int: sign, bits above the low 32, low 32 bits of the magnitude
GoInt(neg, q, n) == [neg |-> neg, q |-> q, r |-> u32(n)]

\* uint32(index) for index >= 0, uint32(-index) for index < 0: modulo 2^32
ToUint32Abs(index) == index.r

initialListSeq == <<32768, 0>>

\* ------------------------------------------------------------------ state
VARIABLES
    trees,      \* db.listIndex.trees: list key -> its radix tree (encoded key -> value)
    ioFails,    \* list log writes that have failed in this behaviour
    count,      \* per key: elements pushed minus elements returned by pops
    deque,      \* per key: the reference double-ended queue
    last,       \* the list operation that ran last, with what it saw and returned
    ldisk,      \* the list log files, the index nodes and the discards sent
    lmu,        \* db.listIndex.mu: the thread holding it for writing (0: none)
    lpc,        \* per thread: the list writer it is in and how far it has come
    valChan,    \* db.discards[List].valChan: the nodes sent and not yet drained
    lret,       \* the list writer that returned last, and what it returned
    hidx,       \* db.hashIndex.indexes: hash key -> field -> value
    hexpires,   \* db.expires[Hash]: hash key -> deadline
    now,        \* time.Now().Unix()
    idxMode,    \* db.config.IdxMode
    hpc,        \* per thread: the hash writer it is in, stopped at hashIndex.mu.Lock()
    hist,       \* the hash writers that ran together, and the state they started in
    hlast,      \* the hash writer whose db.store failed, and what it left
    hdisk,      \* the hash log files and the key-only index into them
    hrd,        \* per thread: the hash read it is in, holding hashIndex.mu.RLock()
    hret,       \* the hash read that returned last, and its result
    btree,      \* MemoryBTree.tree: key -> position
    block,      \* MemoryBTree.lock
    bpc,        \* per thread: the MemoryBTree method it is in
    bret        \* the MemoryBTree method that returned last, and its result

\* ioFails counts the failed log writes of the list and of the hash datatype
chanVars == <<lmu, lpc, valChan, lret>>

listVars == <<trees, ioFails, count, deque, last, ldisk, chanVars>>

readVars == <<hrd, hret>>

hashVars == <<hidx, hexpires, now, idxMode, hpc, hist, hlast, hdisk, readVars>>

btreeVars == <<btree, block, bpc, bret>>

vars == <<listVars, hashVars, btreeVars>>

\* ------------------------------------------------------------- radix tree
EmptyTree == [x \in {} |-> <<>>]

TreePut(t, k, v) == [x \in DOMAIN t \cup {k} |-> IF x = k THEN v ELSE t[x]]

TreeDelete(t, k) == [x \in DOMAIN t \ {k} |-> t[x]]

encodeListKey(key, seq) == PutUint32(seq) \o <<key>>

decodeListKey(buf) == <<buf[5], Uint32(SubSeq(buf, 1, 4))>>

\* getVal: the value the index node of `key` points at, or ErrKeyNotFound
getVal(idxTree, key) ==
    IF key \in DOMAIN idxTree
    THEN [val |-> idxTree[key], err |-> "nil"]
    ELSE [val |-> <<>>, err |-> "ErrKeyNotFound"]

listMeta(idxTree, key) ==
    LET g == getVal(idxTree, <<key>>)
    IN  IF Len(g.val) # 0
        THEN [headSeq |-> Uint32(SubSeq(g.val, 1, 4)),
              tailSeq |-> Uint32(SubSeq(g.val, 5, 8))]
        ELSE [headSeq |-> initialListSeq,
              tailSeq |-> u32add(initialListSeq, u32(1))]

\* A handler's running state: the trees, the number of writeLogEntry calls made
\* so far, the error and value it returns, the loop iterations it completed.
\* The f-th writeLogEntry call of a handler fails (f = 0: none does).
\* log: what the handler did to the log and the index, in order (put: an entry
\* appended and indexed; tomb: a delete entry appended and its key removed from
\* the index; sent: the discards of a completed pop)
Ctx(tr) == [tr |-> tr, w |-> 0, err |-> "nil", val |-> <<>>, done |-> 0, log |-> <<>>]

\* logfile.EncodeEntry: the size of the entry of key and value
encodedSize(key, value) == EntryHeaderSize + Len(key) + Len(value)

\* upd: whether the index held a node for encKey (Put's `updated`)
Did(kind, key, encKey, value, upd) ==
    [kind |-> kind, node |-> <<key, encKey>>, size |-> encodedSize(encKey, value),
     upd |-> upd]

writeFails(c, f) == c.w + 1 = f

\* writeLogEntry followed by updateIndexTree of the same entry
writeAndIndex(c, key, encKey, value, f) ==
    IF writeFails(c, f)
    THEN [c EXCEPT !.w = @ + 1, !.err = "ErrIO"]
    ELSE [c EXCEPT !.w = @ + 1, !.tr[key] = TreePut(@, encKey, value),
                   !.log = Append(@, Did("put", key, encKey, value, encKey \in DOMAIN c.tr[key]))]

saveListMeta(c, key, headSeq, tailSeq, f) ==
    writeAndIndex(c, key, <<key>>, PutUint32(headSeq) \o PutUint32(tailSeq), f)

\* a push that forgets to move the head or tail sequence
pushedMeta_keep(m, isLeft) == m

pushedMeta(m, isLeft) ==
    IF isLeft
    THEN [m EXCEPT !.headSeq = u32sub(@, u32(1))]
    ELSE [m EXCEPT !.tailSeq = u32add(@, u32(1))]

pushInternal(c, key, val, isLeft, f) ==
    LET m == listMeta(c.tr[key], key)
        seq == IF isLeft THEN m.headSeq ELSE m.tailSeq
        c1 == writeAndIndex(c, key, encodeListKey(key, seq), val, f)
        m2 == pushedMeta(m, isLeft)
    IN  IF c1.err # "nil" THEN c1
        ELSE saveListMeta(c1, key, m2.headSeq, m2.tailSeq, f)

\* a pop of an empty list that leaves the metadata as it finds it
resetMeta_skip(c, key, m, f) == c

\* popInternal on an empty list: reset meta, the write's error is dropped
resetMeta(c, key, m, f) ==
    IF m.headSeq # initialListSeq \/ m.tailSeq # u32add(initialListSeq, u32(1))
    THEN [saveListMeta(c, key, initialListSeq, u32add(initialListSeq, u32(1)), f)
            EXCEPT !.err = "nil"]
    ELSE c

poppedMeta(m, isLeft) ==
    IF isLeft
    THEN [m EXCEPT !.headSeq = u32add(@, u32(1))]
    ELSE [m EXCEPT !.tailSeq = u32sub(@, u32(1))]

popInternal(c, key, isLeft, f) ==
    IF key \notin DOMAIN c.tr THEN [c EXCEPT !.val = <<>>]
    ELSE
    LET idxTree == c.tr[key]
        m == listMeta(idxTree, key)
        size == u32sub(u32sub(m.tailSeq, m.headSeq), u32(1))
        seq == IF isLeft THEN u32add(m.headSeq, u32(1)) ELSE u32sub(m.tailSeq, u32(1))
        encKey == encodeListKey(key, seq)
        g == getVal(idxTree, encKey)
        m2 == poppedMeta(m, isLeft)
    IN  IF size = u32(0) THEN [resetMeta(c, key, m, f) EXCEPT !.val = <<>>]
        ELSE IF g.err # "nil" THEN [c EXCEPT !.err = g.err, !.val = <<>>]
        ELSE IF writeFails(c, f) THEN [c EXCEPT !.w = @ + 1, !.err = "ErrIO", !.val = <<>>]
        ELSE LET c1 == [c EXCEPT !.w = @ + 1, !.tr[key] = TreeDelete(@, encKey),
                                 !.log = Append(@, Did("tomb", key, encKey, <<>>, TRUE))]
                 c2 == saveListMeta(c1, key, m2.headSeq, m2.tailSeq, f)
             IN  IF c2.err # "nil" THEN [c2 EXCEPT !.val = <<>>]
                 ELSE [c2 EXCEPT !.val = g.val,
                                 !.log = Append(@, Did("sent", key, encKey, <<>>, TRUE))]

\* listSequence just converts a logical index to a physical seq
listSequence(headSeq, tailSeq, index) ==
    IF ~index.neg
    THEN u32add(u32add(headSeq, ToUint32Abs(index)), u32(1))
    ELSE u32sub(tailSeq, ToUint32Abs(index))

\* ------------------------------------------------------------ list readers
\* (each holds db.listIndex.mu.RLock from entry to return)
LLen(tr, key) ==
    IF key \notin DOMAIN tr THEN 0
    ELSE LET m == listMeta(tr[key], key)
         IN  toInt(u32sub(u32sub(m.tailSeq, m.headSeq), u32(1)))

\* seq >= tailSeq || seq <= headSeq
outsideMeta(seq, m) == u32le(m.tailSeq, seq) \/ u32le(seq, m.headSeq)

LIndex(tr, key, index) ==
    IF key \notin DOMAIN tr THEN [val |-> <<>>, err |-> "nil"]
    ELSE LET m == listMeta(tr[key], key)
             seq == listSequence(m.headSeq, m.tailSeq, index)
         IN  IF outsideMeta(seq, m) THEN [val |-> <<>>, err |-> "ErrWrongIndex"]
             ELSE getVal(tr[key], encodeListKey(key, seq))

RECURSIVE rangeLoop(_, _, _, _, _)
\* for seq := startSeq; seq < endSeq+1; seq++
rangeLoop(idxTree, key, seq, endSeq, values) ==
    IF ~u32lt(seq, u32add(endSeq, u32(1))) THEN [vals |-> values, err |-> "nil"]
    ELSE LET g == getVal(idxTree, encodeListKey(key, seq))
         IN  IF g.err # "nil" THEN [vals |-> <<>>, err |-> g.err]
             ELSE rangeLoop(idxTree, key, u32add(seq, u32(1)), endSeq, Append(values, g.val))

LRange(tr, key, start, end) ==
    IF key \notin DOMAIN tr THEN [vals |-> <<>>, err |-> "ErrKeyNotFound"]
    ELSE LET m == listMeta(tr[key], key)
             s0 == listSequence(m.headSeq, m.tailSeq, start)
             e0 == listSequence(m.headSeq, m.tailSeq, end)
             startSeq == IF u32le(s0, m.headSeq) THEN u32add(m.headSeq, u32(1)) ELSE s0
             endSeq == IF u32le(m.tailSeq, e0) THEN u32sub(m.tailSeq, u32(1)) ELSE e0
         IN  IF u32le(m.tailSeq, startSeq) \/ u32le(endSeq, m.headSeq) \/ u32lt(endSeq, startSeq)
             THEN [vals |-> <<>>, err |-> "ErrWrongIndex"]
             ELSE rangeLoop(tr[key], key, startSeq, endSeq, <<>>)

\* The keys GetListKeys appends (Go's map order is unspecified: a set).  No list
\* entry written by these operations carries an expiry, so expiredAt = 0.
GetListKeys(tr) ==
    {key \in DOMAIN tr :
        LET m == listMeta(tr[key], key)
        IN  encodeListKey(key, m.headSeq) \in DOMAIN tr[key]}

\* ------------------------------------------------------------ list writers
\* (each holds db.listIndex.mu.Lock from entry to return)
RECURSIVE pushLoop(_, _, _, _, _)
\* for _, val := range values { pushInternal }, stopping at the first error
pushLoop(c, key, values, isLeft, f) ==
    IF values = <<>> THEN c
    ELSE LET c1 == pushInternal(c, key, Head(values), isLeft, f)
         IN  IF c1.err # "nil" THEN c1
             ELSE pushLoop([c1 EXCEPT !.done = @ + 1], key, Tail(values), isLeft, f)

withTree(tr, key) ==
    IF key \in DOMAIN tr THEN tr
    ELSE [k \in DOMAIN tr \cup {key} |-> IF k = key THEN EmptyTree ELSE tr[k]]

push(tr, key, values, isLeft, f) == pushLoop(Ctx(withTree(tr, key)), key, values, isLeft, f)

\* a pushX that creates the tree of a missing key, as push does
pushX_create(tr, key, values, isLeft, f) ==
    pushLoop(Ctx(withTree(tr, key)), key, values, isLeft, f)

pushX(tr, key, values, isLeft, f) ==
    IF key \notin DOMAIN tr THEN [Ctx(tr) EXCEPT !.err = "ErrKeyNotFound"]
    ELSE pushLoop(Ctx(tr), key, values, isLeft, f)

pop(tr, key, isLeft, f) == popInternal(Ctx(tr), key, isLeft, f)

\* an LMove that pops and never pushes
lmove_popOnly(tr, srcKey, dstKey, srcIsLeft, dstIsLeft, f) ==
    popInternal(Ctx(tr), srcKey, srcIsLeft, f)

lmove(tr, srcKey, dstKey, srcIsLeft, dstIsLeft, f) ==
    LET c1 == popInternal(Ctx(tr), srcKey, srcIsLeft, f)
        c2 == [c1 EXCEPT !.tr = withTree(@, dstKey)]
        c3 == pushInternal(c2, dstKey, c1.val, dstIsLeft, f)
    IN  IF c1.err # "nil" THEN [c1 EXCEPT !.val = <<>>]
        ELSE IF c1.val = <<>> THEN c1
        ELSE IF c3.err # "nil" THEN [c3 EXCEPT !.val = <<>>]
        ELSE [c3 EXCEPT !.done = 1]

lset(tr, key, index, value, f) ==
    IF key \notin DOMAIN tr THEN [Ctx(tr) EXCEPT !.err = "ErrKeyNotFound"]
    ELSE LET m == listMeta(tr[key], key)
             seq == listSequence(m.headSeq, m.tailSeq, index)
         IN  IF outsideMeta(seq, m) THEN [Ctx(tr) EXCEPT !.err = "ErrWrongIndex"]
             ELSE writeAndIndex(Ctx(tr), key, encodeListKey(key, seq), value, f)

\* ------------------------------------------- list entries in the log files
\* An appended entry: its file, offset and encoded size (an indexNode, with the
\* offset that tells entries of one file apart)
Entry(fid, off, size) == [fid |-> fid, off |-> off, size |-> size]

\* The list datatype on disk: the trees, the index node of every indexed key,
\* the active file and its write offset, the entries written, the entries whose
\* size was sent to db.discards[List], whether one was sent twice, and the dead
\* bytes the discard tracker has added up per file
NoListDisk ==
    [tr |-> [k \in {} |-> EmptyTree], node |-> [n \in {} |-> Entry(0, 0, 0)],
     fid |-> 0, offset |-> 0, written |-> {}, sent |-> {}, resent |-> FALSE,
     dead |-> [i \in {} |-> 0]]

\* writeLogEntry: rotates the active file when the entry would exceed the
\* budget and appends the entry; pos is the position it returns
writeLogEntry(d, size) ==
    LET rot == d.offset + size > ListBlockSize
        e == Entry(IF rot THEN d.fid + 1 ELSE d.fid, IF rot THEN 0 ELSE d.offset, size)
    IN  [d |-> [d EXCEPT !.fid = e.fid, !.offset = e.off + size, !.written = @ \cup {e}],
         pos |-> e]

\* db.discards[List].valChan <- node, the channel having room: the tracker adds
\* the node's size to the dead bytes of the node's file
toValChan(d, e) ==
    [d EXCEPT !.sent = @ \cup {e}, !.resent = @ \/ e \in d.sent,
              !.dead = TreePut(@, e.fid, (IF e.fid \in DOMAIN @ THEN @[e.fid] ELSE 0) + e.size)]

\* sendDiscard(oldVal, updated, List)
sendDiscard(d, oldVal, updated) == IF updated THEN toValChan(d, oldVal) ELSE d

\* updateIndexTree(idxTree, ent, pos, true, List): Put, and the discard of the
\* node it replaced
updateIndexTree(d, nk, pos) ==
    LET updated == nk \in DOMAIN d.node
        oldVal == IF updated THEN d.node[nk] ELSE pos
    IN  [sendDiscard(d, oldVal, updated) EXCEPT !.node = TreePut(@, nk, pos)]

\* a pop that reports the popped element's node in the tombstone's place too
popDiscards_oldTwice(d, oldVal, tomb) ==
    toValChan(sendDiscard(d, oldVal, TRUE), oldVal)

\* popInternal: the discard of the popped element's node, then of the
\* tombstone's own
popDiscards(d, oldVal, tomb) ==
    toValChan(sendDiscard(d, oldVal, TRUE), tomb)

\* What a handler's log does to the disk.  a: the disk, and for a pop the node
\* idxTree.Delete returned and the tombstone's position
RECURSIVE applyLog(_, _)
applyLog(a, log) ==
    IF log = <<>> THEN a.d
    ELSE LET ev == Head(log)
             w == writeLogEntry(a.d, ev.size)
         IN  CASE ev.kind = "put" ->
                    applyLog([a EXCEPT !.d = updateIndexTree(w.d, ev.node, w.pos)], Tail(log))
               [] ev.kind = "tomb" ->
                    applyLog([d |-> [w.d EXCEPT !.node = TreeDelete(@, ev.node)],
                              old |-> a.d.node[ev.node], tomb |-> w.pos], Tail(log))
               [] ev.kind = "sent" ->
                    applyLog([a EXCEPT !.d = popDiscards(a.d, a.old, a.tomb)], Tail(log))

\* the disk after a handler that ended with context c
afterHandler(d, c) ==
    [applyLog([d |-> d, old |-> Entry(0, 0, 0), tomb |-> Entry(0, 0, 0)], c.log)
        EXCEPT !.tr = c.tr]

\* ----------------------------------------------------------- list actions
\* Every list action takes `io`: FALSE when the log is reliable (SpecList),
\* TRUE when a write may fail (SpecListIO, which also records `last`).
ValueSeqs == UNION {[1..n -> {<<v>> : v \in Vals}] : n \in 0..MaxVals}

IndexInputs ==
    {GoInt(neg, q, n) : neg \in BOOLEAN, q \in {0, 1}, n \in 0..MaxIdx}
        \ {GoInt(TRUE, 0, 0)}

\* the failing write of a handler that makes at most n writes: none, or one of them
FailInputs(io, n) == IF io THEN 0..n ELSE {0}

failedIn(c, f) == IF f >= 1 /\ f <= c.w THEN 1 ELSE 0

canRun(io) == io => ioFails < MaxIoFail

RECURSIVE Reverse(_)
Reverse(s) == IF s = <<>> THEN <<>> ELSE Append(Reverse(Tail(s)), Head(s))

Front(s) == SubSeq(s, 1, Len(s) - 1)

dequePush(d, values, isLeft) == IF isLeft THEN Reverse(values) \o d ELSE d \o values

dequePop(d, isLeft) == IF d = <<>> THEN d ELSE IF isLeft THEN Tail(d) ELSE Front(d)

dequeEnd(d, isLeft) == IF d = <<>> THEN <<>> ELSE IF isLeft THEN Head(d) ELSE d[Len(d)]

\* the reference deque's position of a Go index
dequeAt(d, index) ==
    IF ~index.neg THEN toInt(index.r) + 1 ELSE Len(d) - toInt(index.r) + 1

\* index lies in [-n, n)
inRange(index, n) ==
    /\ index.q = 0
    /\ IF index.neg THEN toInt(index.r) <= n ELSE toInt(index.r) < n

RECURSIVE SumOver(_, _)
SumOver(fn, ks) ==
    IF ks = {} THEN 0
    ELSE LET k == CHOOSE x \in ks : TRUE IN fn[k] + SumOver(fn, ks \ {k})

initialMeta ==
    [headSeq |-> initialListSeq, tailSeq |-> u32add(initialListSeq, u32(1))]

metaOf(tr, key) == listMeta(IF key \in DOMAIN tr THEN tr[key] ELSE EmptyTree, key)

\* a push of n values keeps the lists within the bounds
roomFor(io, key, n, isLeft) ==
    LET m == metaOf(trees, key)
        maxPush == IF io THEN MaxPushIO ELSE MaxPush
        maxSeq == IF io THEN MaxSeqIO ELSE MaxSeq
    IN  /\ SumOver(count, ListKeys) + n <= maxPush
        /\ IF isLeft
           THEN u32le(u32add(u32sub(initialListSeq, u32(maxSeq)), u32(n)), m.headSeq)
           ELSE u32le(u32add(m.tailSeq, u32(n)), u32add(initialListSeq, u32(maxSeq + 1)))

\* What `last` keeps of a list operation: its name and keys, the error and value
\* it returned, the reference deque's answer, whether one of its writes failed,
\* and, from before it ran, whether the key had a tree, the key's metadata and
\* the two keys' lengths.
\* A thread in a list writer.  at: idle; wait (at listIndex.mu.Lock()); locked
\* (holds the lock, handler not yet run); send (handler run, its discards being
\* sent).  arg: the value pushed; val, err: what the handler returns; end: the
\* element that was at the popped end; pend: the discards still to send;
\* drops: the discards dropped with a warning
ListThread(at, op, key, arg) ==
    [at |-> at, op |-> op, key |-> key, arg |-> arg, val |-> <<>>, err |-> "nil",
     end |-> <<>>, pend |-> <<>>, drops |-> 0]

ListIdle == ListThread("idle", "none", "L1", <<>>)

NoListRet == [op |-> "none", val |-> <<>>, err |-> "nil", drops |-> 0]

NoLast ==
    [op |-> "none", key |-> "L1", dst |-> "L1", err |-> "nil", val |-> <<>>,
     ref |-> <<>>, failed |-> FALSE, had |-> FALSE, pre |-> initialMeta,
     preLen |-> 0, preDst |-> 0]

Last(io, op, key, dst, c, f, ref) ==
    IF ~io THEN last
    ELSE [op |-> op, key |-> key, dst |-> dst, err |-> c.err, val |-> c.val,
          ref |-> ref, failed |-> failedIn(c, f) = 1, had |-> key \in DOMAIN trees,
          pre |-> metaOf(trees, key),
          preLen |-> LLen(trees, key), preDst |-> LLen(trees, dst)]

ListInit ==
    /\ trees = [k \in {} |-> EmptyTree]
    /\ ioFails = 0
    /\ count = [k \in ListKeys |-> 0]
    /\ deque = [k \in ListKeys |-> <<>>]
    /\ last = NoLast
    /\ ldisk = NoListDisk
    /\ lmu = 0
    /\ lpc = [t \in Threads |-> ListIdle]
    /\ valChan = <<>>
    /\ lret = NoListRet

Pushed(io, op, key, values, isLeft, c, f) ==
    /\ trees' = c.tr
    /\ ioFails' = ioFails + failedIn(c, f)
    /\ count' = [count EXCEPT ![key] = @ + c.done]
    /\ deque' = [deque EXCEPT ![key] = dequePush(@, SubSeq(values, 1, c.done), isLeft)]
    /\ last' = Last(io, op, key, key, c, f, <<>>)
    /\ UNCHANGED <<ldisk, chanVars, hashVars, btreeVars>>

LPush(io) ==
    \E key \in ListKeys, values \in ValueSeqs :
        \E f \in FailInputs(io, 2 * Len(values)) :
            /\ canRun(io) /\ roomFor(io, key, Len(values), TRUE)
            /\ Pushed(io, "LPush", key, values, TRUE, push(trees, key, values, TRUE, f), f)

RPush(io) ==
    \E key \in ListKeys, values \in ValueSeqs :
        \E f \in FailInputs(io, 2 * Len(values)) :
            /\ canRun(io) /\ roomFor(io, key, Len(values), FALSE)
            /\ Pushed(io, "RPush", key, values, FALSE, push(trees, key, values, FALSE, f), f)

LPushX(io) ==
    \E key \in ListKeys, values \in ValueSeqs :
        \E f \in FailInputs(io, 2 * Len(values)) :
            /\ canRun(io) /\ roomFor(io, key, Len(values), TRUE)
            /\ Pushed(io, "LPushX", key, values, TRUE, pushX(trees, key, values, TRUE, f), f)

RPushX(io) ==
    \E key \in ListKeys, values \in ValueSeqs :
        \E f \in FailInputs(io, 2 * Len(values)) :
            /\ canRun(io) /\ roomFor(io, key, Len(values), FALSE)
            /\ Pushed(io, "RPushX", key, values, FALSE, pushX(trees, key, values, FALSE, f), f)

Popped(io, op, key, isLeft, c, f) ==
    LET ok == c.err = "nil"
    IN  /\ trees' = c.tr
        /\ ioFails' = ioFails + failedIn(c, f)
        /\ count' = [count EXCEPT ![key] = IF ok /\ c.val # <<>> THEN @ - 1 ELSE @]
        /\ deque' = [deque EXCEPT ![key] = IF ok THEN dequePop(@, isLeft) ELSE @]
        /\ last' = Last(io, op, key, key, c, f, dequeEnd(deque[key], isLeft))
        /\ UNCHANGED <<ldisk, chanVars, hashVars, btreeVars>>

LPop(io) ==
    \E key \in ListKeys, f \in FailInputs(io, 2) :
        /\ canRun(io)
        /\ Popped(io, "LPop", key, TRUE, pop(trees, key, TRUE, f), f)

RPop(io) ==
    \E key \in ListKeys, f \in FailInputs(io, 2) :
        /\ canRun(io)
        /\ Popped(io, "RPop", key, FALSE, pop(trees, key, FALSE, f), f)

LMove(io) ==
    \E srcKey \in ListKeys, dstKey \in ListKeys, srcIsLeft \in BOOLEAN,
       dstIsLeft \in BOOLEAN, f \in FailInputs(io, 4) :
        LET c == lmove(trees, srcKey, dstKey, srcIsLeft, dstIsLeft, f)
            moved == c.done = 1
            el == dequeEnd(deque[srcKey], srcIsLeft)
            d1 == [deque EXCEPT ![srcKey] = dequePop(@, srcIsLeft)]
            n1 == [count EXCEPT ![srcKey] = @ - 1]
        IN  /\ canRun(io) /\ roomFor(io, dstKey, 0, dstIsLeft)
            /\ trees' = c.tr
            /\ ioFails' = ioFails + failedIn(c, f)
            /\ count' = IF moved THEN [n1 EXCEPT ![dstKey] = @ + 1] ELSE count
            /\ deque' = IF moved /\ el # <<>>
                        THEN [d1 EXCEPT ![dstKey] = dequePush(@, <<el>>, dstIsLeft)]
                        ELSE deque
            /\ last' = Last(io, "LMove", srcKey, dstKey, c, f, el)
            /\ UNCHANGED <<ldisk, chanVars, hashVars, btreeVars>>

\* The indices LSet is given as an action are those within MaxIdx of zero
LSet(io) ==
    \E key \in ListKeys, index \in {x \in IndexInputs : x.q = 0}, v \in Vals,
       f \in FailInputs(io, 1) :
        LET c == lset(trees, key, index, <<v>>, f)
        IN  /\ canRun(io)
            /\ trees' = c.tr
            /\ ioFails' = ioFails + failedIn(c, f)
            /\ deque' = IF c.err = "nil" /\ inRange(index, Len(deque[key]))
                        THEN [deque EXCEPT ![key][dequeAt(deque[key], index)] = <<v>>]
                        ELSE deque
            /\ last' = Last(io, "LSet", key, key, c, f, <<>>)
            /\ UNCHANGED <<count, ldisk, chanVars, hashVars, btreeVars>>

ListNext ==
    \/ LPush(FALSE) \/ RPush(FALSE) \/ LPushX(FALSE) \/ RPushX(FALSE)
    \/ LPop(FALSE) \/ RPop(FALSE) \/ LMove(FALSE) \/ LSet(FALSE)

ListNextIO ==
    \/ LPush(TRUE) \/ RPush(TRUE) \/ LPushX(TRUE) \/ RPushX(TRUE)
    \/ LPop(TRUE) \/ RPop(TRUE) \/ LMove(TRUE) \/ LSet(TRUE)

\* ------------------------------------- list actions on the log files
\* a handler that ended with context c has run on the disk
OnDisk(c) ==
    /\ ldisk' = afterHandler(ldisk, c)
    /\ UNCHANGED <<trees, ioFails, count, deque, last, chanVars, hashVars, btreeVars>>

DiskRoom == Cardinality(ldisk.written) < MaxListAppend

DiskLPush ==
    \E key \in ListKeys, v \in Vals, f \in 0..2 :
        /\ DiskRoom
        /\ OnDisk(push(ldisk.tr, key, <<<<v>>>>, TRUE, f))

DiskRPush ==
    \E key \in ListKeys, v \in Vals, f \in 0..2 :
        /\ DiskRoom
        /\ OnDisk(push(ldisk.tr, key, <<<<v>>>>, FALSE, f))

DiskLPop ==
    \E key \in ListKeys, f \in 0..2 :
        /\ DiskRoom
        /\ OnDisk(pop(ldisk.tr, key, TRUE, f))

DiskRPop ==
    \E key \in ListKeys, f \in 0..2 :
        /\ DiskRoom
        /\ OnDisk(pop(ldisk.tr, key, FALSE, f))

DiskLMove ==
    \E srcKey \in ListKeys, dstKey \in ListKeys, srcIsLeft \in BOOLEAN,
       dstIsLeft \in BOOLEAN, f \in 0..4 :
        /\ DiskRoom
        /\ OnDisk(lmove(ldisk.tr, srcKey, dstKey, srcIsLeft, dstIsLeft, f))

DiskLSet ==
    \E key \in ListKeys, i \in {0, 1}, v \in Vals, f \in 0..1 :
        /\ DiskRoom
        /\ OnDisk(lset(ldisk.tr, key, GoInt(FALSE, 0, i), <<v>>, f))

ListDiskNext ==
    \/ DiskLPush \/ DiskRPush \/ DiskLPop \/ DiskRPop \/ DiskLMove \/ DiskLSet

\* --------------------------------- list writers and the discard channel
\* select { case db.discards[List].valChan <- node: default: logger.Warn }
\* ok: the node was sent; done: the statement has completed
selectSend_blocking(ch, node) ==
    IF Len(ch) < MaxChan THEN [ch |-> Append(ch, node), ok |-> TRUE, done |-> TRUE]
    ELSE [ch |-> ch, ok |-> FALSE, done |-> FALSE]

selectSend(ch, node) ==
    IF Len(ch) < MaxChan THEN [ch |-> Append(ch, node), ok |-> TRUE, done |-> TRUE]
    ELSE [ch |-> ch, ok |-> FALSE, done |-> TRUE]

\* The discards a handler sends, in order: the node a Put replaced
\* (updateIndexTree -> sendDiscard), and for a completed pop the popped
\* element's node (sendDiscard) and then the tombstone's
RECURSIVE discardsOf(_)
discardsOf(log) ==
    IF log = <<>> THEN <<>>
    ELSE LET ev == Head(log)
         IN  (CASE ev.kind = "put" -> IF ev.upd THEN <<"old">> ELSE <<>>
                [] ev.kind = "tomb" -> <<>>
                [] ev.kind = "sent" -> <<"old", "tomb">>) \o discardsOf(Tail(log))

ChanOps == {"LPush", "LPop", "RPop"}

\* the threads work on one list and push one value
ChanKeys == {"L1"}

\* the handler of a thread's call, whose f-th log write fails
chanHandler(tr, me, f) ==
    CASE me.op = "LPush" -> push(tr, me.key, <<me.arg>>, TRUE, f)
      [] me.op = "LPop" -> pop(tr, me.key, TRUE, f)
      [] me.op = "RPop" -> pop(tr, me.key, FALSE, f)

\* the element at the end of the list that the thread's pop takes
endOf(tr, me) ==
    LIndex(tr, me.key, IF me.op = "LPop" THEN GoInt(FALSE, 0, 0) ELSE GoInt(TRUE, 0, 1)).val

\* the pushes that have been called and have not yet run
pushesWaiting == Cardinality({t \in Threads : lpc[t].at \in {"wait", "locked"} /\ lpc[t].op = "LPush"})

\* one more LPush keeps the head sequence within MaxChanSeq of its initial value
chanRoom(key) ==
    u32le(u32add(u32sub(initialListSeq, u32(MaxChanSeq)), u32(pushesWaiting + 1)),
          metaOf(trees, key).headSeq)

\* thread t calls LPush, LPop or RPop and reaches db.listIndex.mu.Lock()
\* (threads are interchangeable: the lowest idle thread is the one that calls)
ChanCall(t) ==
    \E op \in ChanOps, key \in ChanKeys :
        /\ lpc[t].at = "idle"
        /\ \A u \in Threads : u < t => lpc[u].at # "idle"
        /\ op = "LPush" => chanRoom(key)
        /\ lpc' = [lpc EXCEPT ![t] = ListThread("wait", op, key, <<"a">>)]
        /\ UNCHANGED <<trees, ioFails, count, deque, last, ldisk, lmu, valChan, lret>>
        /\ UNCHANGED <<hashVars, btreeVars>>

\* db.listIndex.mu.Lock() returns
ChanLock(t) ==
    /\ lpc[t].at = "wait"
    /\ lmu = 0
    /\ lmu' = t
    /\ lpc' = [lpc EXCEPT ![t].at = "locked"]
    /\ UNCHANGED <<trees, ioFails, count, deque, last, ldisk, valChan, lret>>
    /\ UNCHANGED <<hashVars, btreeVars>>

\* the handler runs up to its discards; one of its log writes may fail
ChanBody(t) ==
    /\ lpc[t].at = "locked"
    /\ \E f \in 0..2 :
        \E c \in {chanHandler(trees, lpc[t], f)} :
            /\ trees' = c.tr
            /\ lpc' = [lpc EXCEPT ![t] = [@ EXCEPT !.at = "send", !.val = c.val,
                                                    !.err = c.err,
                                                    !.end = endOf(trees, lpc[t]),
                                                    !.pend = discardsOf(c.log)]]
            /\ UNCHANGED <<ioFails, count, deque, last, ldisk, lmu, valChan, lret>>
            /\ UNCHANGED <<hashVars, btreeVars>>

\* the next discard of the handler: sent if the channel has room, dropped with
\* a warning if it is full
ChanSend(t) ==
    LET me == lpc[t]
        r == selectSend(valChan, Head(me.pend))
    IN  /\ me.at = "send" /\ me.pend # <<>>
        /\ r.done
        /\ valChan' = r.ch
        /\ lpc' = [lpc EXCEPT ![t] = [@ EXCEPT !.pend = Tail(me.pend),
                                                !.drops = @ + (IF r.ok THEN 0 ELSE 1)]]
        /\ UNCHANGED <<trees, ioFails, count, deque, last, ldisk, lmu, lret>>
        /\ UNCHANGED <<hashVars, btreeVars>>

\* return; deferred db.listIndex.mu.Unlock()
ChanReturn(t) ==
    LET me == lpc[t]
    IN  /\ me.at = "send" /\ me.pend = <<>>
        /\ lmu' = 0
        /\ lret' = [op |-> me.op, val |-> me.val, err |-> me.err, drops |-> me.drops]
        /\ lpc' = [lpc EXCEPT ![t] = ListIdle]
        /\ UNCHANGED <<trees, ioFails, count, deque, last, ldisk, valChan>>
        /\ UNCHANGED <<hashVars, btreeVars>>

\* the discard drainer receives a node from the channel
ChanDrain ==
    /\ valChan # <<>>
    /\ valChan' = Tail(valChan)
    /\ UNCHANGED <<trees, ioFails, count, deque, last, ldisk, lmu, lpc, lret>>
    /\ UNCHANGED <<hashVars, btreeVars>>

ListChanNext ==
    \/ \E t \in Threads : ChanCall(t) \/ ChanLock(t) \/ ChanBody(t) \/ ChanSend(t) \/ ChanReturn(t)
    \/ ChanDrain

\* A thread in a writer keeps running, and a thread waiting for the mutex gets
\* it (sync.Mutex hands the lock to a starving waiter).  Nothing obliges the
\* drainer to receive, nor a thread to call.
ListChanFair ==
    \A t \in Threads :
        /\ SF_vars(ChanLock(t))
        /\ WF_vars(ChanBody(t) \/ ChanSend(t) \/ ChanReturn(t))

\* ==================================================================== hash
HashKeys == {"H"}
Fields == {"f1", "f2"}
FieldVals == {"x", "y"}
IdxModes == {"KeyValueMemMode", "KeyOnlyMemMode"}

\* a nil []byte
NilVal == ""

MapPut(m, k, v) == [x \in DOMAIN m \cup {k} |-> IF x = k THEN v ELSE m[x]]

MapDel(m, k) == [x \in DOMAIN m \ {k} |-> m[x]]

NoFields == [f \in {} |-> NilVal]

NoHashes == [k \in {} |-> NoFields]

NoExpires == [k \in {} |-> 0]

\* ----------------------------------------------------- hash.Hash (ds/hash)
\* HSetIndexer: 1 when the field is new, 0 when it existed; an existing field is
\* overwritten unless onlyNotExist
HSetIndexer(idx, key, field, value, onlyNotExist) ==
    LET rec == IF key \in DOMAIN idx THEN idx[key] ELSE NoFields
        exist == field \in DOMAIN rec
    IN  IF exist /\ onlyNotExist
        THEN [idx |-> MapPut(idx, key, rec), res |-> 0]
        ELSE [idx |-> MapPut(idx, key, MapPut(rec, field, value)),
              res |-> IF exist THEN 0 ELSE 1]

hashHGet(idx, key, field) ==
    IF key \in DOMAIN idx /\ field \in DOMAIN idx[key] THEN idx[key][field] ELSE NilVal

hashHDel(idx, key, field) ==
    IF key \in DOMAIN idx /\ field \in DOMAIN idx[key]
    THEN [idx |-> MapPut(idx, key, MapDel(idx[key], field)), ok |-> 1]
    ELSE [idx |-> idx, ok |-> 0]

hashHClear(idx, key) == MapDel(idx, key)

hashHKeyExists(idx, key) == key \in DOMAIN idx

hashHLen(idx, key) == IF key \in DOMAIN idx THEN Cardinality(DOMAIN idx[key]) ELSE 0

\* ------------------------------------------------------------ hash readers
\* The index and the expiry map of the hash datatype, as the handlers see them
HState(idx, exp) == [idx |-> idx, exp |-> exp]

\* lazy expiry: a key whose deadline has passed is cleared and reported expired
checkExpired(s, key, t) ==
    IF key \in DOMAIN s.exp /\ t > s.exp[key]
    THEN [s |-> HState(hashHClear(s.idx, key), MapDel(s.exp, key)), expired |-> TRUE]
    ELSE [s |-> s, expired |-> FALSE]

HGet(s, key, field, t) ==
    LET c == checkExpired(s, key, t)
    IN  [s |-> c.s,
         val |-> IF c.expired THEN NilVal ELSE hashHGet(c.s.idx, key, field)]

\* isNil: the nil slice HMGet returns for an expired key
HMGet(s, key, fields, t) ==
    LET c == checkExpired(s, key, t)
    IN  [s |-> c.s, isNil |-> c.expired,
         vals |-> IF c.expired THEN <<>>
                  ELSE [i \in 1..Len(fields) |-> hashHGet(c.s.idx, key, fields[i])]]

HKeyExists(s, key, t) ==
    LET c == checkExpired(s, key, t)
    IN  [s |-> c.s, ok |-> ~c.expired /\ hashHKeyExists(c.s.idx, key)]

HLen(s, key, t) ==
    LET c == checkExpired(s, key, t)
    IN  [s |-> c.s, n |-> IF c.expired THEN 0 ELSE hashHLen(c.s.idx, key)]

\* the hash reads, each with the field it is given (HMGet: both fields)
ReadCalls ==
    {<<op, fd>> : op \in {"HGet", "HExists"}, fd \in Fields}
        \cup {<<op, "f1">> : op \in {"HMGet", "HGetAll", "HKeyExists", "HLen",
                                      "HKeys", "HVals", "HTTL"}}

recordOf(idx, key) == IF key \in DOMAIN idx THEN idx[key] ELSE NoFields

\* what a read returns for a key it found expired: nil, false or 0
absentResult(op) ==
    CASE op = "HGet" -> NilVal
      [] op = "HMGet" -> <<>>
      [] op = "HGetAll" -> NoFields
      [] op \in {"HExists", "HKeyExists"} -> FALSE
      [] op \in {"HLen", "HTTL"} -> 0
      [] op = "HKeys" -> {}
      [] op = "HVals" -> [v \in FieldVals |-> 0]

\* What a read returns after checkExpired has found the key not expired.  The
\* order of HGetAll, HKeys and HVals is unspecified: HGetAll is the field-to-value
\* map, HKeys a set, HVals the number of fields holding each value.
afterCheck(op, s, key, fd, t) ==
    LET rec == recordOf(s.idx, key)
    IN  CASE op = "HGet" -> hashHGet(s.idx, key, fd)
          [] op = "HMGet" -> <<hashHGet(s.idx, key, "f1"), hashHGet(s.idx, key, "f2")>>
          [] op = "HGetAll" -> rec
          [] op = "HExists" -> fd \in DOMAIN rec
          [] op = "HKeyExists" -> hashHKeyExists(s.idx, key)
          [] op = "HLen" -> hashHLen(s.idx, key)
          [] op = "HKeys" -> DOMAIN rec
          [] op = "HVals" -> [v \in FieldVals |-> Cardinality({x \in DOMAIN rec : rec[x] = v})]
          [] op = "HTTL" -> IF key \in DOMAIN s.exp THEN s.exp[key] - t ELSE 0

\* A thread in a read: the read and its field, whether checkExpired found the
\* key expired, whether the index was changed under a read lock while the read
\* held its own, and (lin) what the read could find since its check
Reader(op, fd, expired, lin) ==
    [op |-> op, fd |-> fd, expired |-> expired, raced |-> FALSE, lin |-> lin]

NoRead == Reader("idle", "f1", FALSE, {})

\* fatal: the runtime's "concurrent map read and map write"
Ret(op, val, fatal) == [op |-> op, val |-> val, fatal |-> fatal]

NoRet == Ret("none", <<>>, FALSE)

\* ------------------------------------------------------------ hash writers
\* A call: its name, key, <<field, value>> pairs (HDel: fields with a nil value)
\* and duration
Call(op, key, args, dur) == [op |-> op, key |-> key, args |-> args, dur |-> dur]

\* What a writer has when it reaches hashIndex.mu.Lock(): the state its reads
\* left, whether it has already returned (and with which error), and the pairs
\* it is going to store
AtLock(s, done, err, ins) == [s |-> s, done |-> done, err |-> err, ins |-> ins]

\* HMSet: the pairs whose value differs from the one read
RECURSIVE insertVals(_, _, _)
insertVals(args, existVals, i) ==
    IF i > Len(existVals) THEN <<>>
    ELSE (IF args[i][2] # existVals[i] THEN <<args[i]>> ELSE <<>>)
             \o insertVals(args, existVals, i + 1)

\* the part of a writer that runs before it takes the write lock
beforeLock(call, s, t, mode) ==
    CASE call.op = "HSet" ->
            IF mode = "KeyValueMemMode"
            THEN LET g == HGet(s, call.key, call.args[1][1], t)
                 IN  AtLock(g.s, g.val = call.args[1][2], "nil", call.args)
            ELSE AtLock(s, FALSE, "nil", call.args)
      [] call.op = "HSetNx" -> AtLock(s, FALSE, "nil", call.args)
      [] call.op = "HMSet" ->
            LET fields == [i \in 1..Len(call.args) |-> call.args[i][1]]
                g == HMGet(s, call.key, fields, t)
            IN  AtLock(g.s, FALSE, "nil",
                       IF g.isNil THEN call.args ELSE insertVals(call.args, g.vals, 1))
      [] call.op = "HDel" -> AtLock(s, call.args = <<>>, "nil", call.args)
      [] call.op = "HClear" ->
            LET k == HKeyExists(s, call.key, t)
            IN  AtLock(k.s, ~k.ok, IF k.ok THEN "nil" ELSE "ErrKeyNotExist", <<>>)
      [] call.op = "HExpire" ->
            IF call.dur <= 0 THEN AtLock(s, TRUE, "ErrInvalidTTL", <<>>)
            ELSE LET k == HKeyExists(s, call.key, t)
                 IN  AtLock(k.s, ~k.ok, IF k.ok THEN "nil" ELSE "ErrKeyNotExist", <<>>)

\* The locals of a writer inside the lock: the state, the db.store calls made,
\* err and res, whether a db.store failed and, if one did, whether the state was
\* then as it had been before that entry was attempted
HCtx(s) ==
    [s |-> s, w |-> 0, err |-> "nil", res |-> 0, failed |-> FALSE, intact |-> TRUE]

\* db.store of the entry that was attempted in state `before`; the f-th fails
store(c, before, f) ==
    IF c.w + 1 = f
    THEN [c EXCEPT !.w = @ + 1, !.err = "ErrIO", !.failed = TRUE,
                   !.intact = (c.s = before)]
    ELSE [c EXCEPT !.w = @ + 1]

setHashIndexer(c, key, pair, onlyNotExist) ==
    LET r == HSetIndexer(c.s.idx, key, pair[1], pair[2], onlyNotExist)
    IN  [c EXCEPT !.s.idx = r.idx, !.res = r.res]

hset(c, key, pair, f) ==
    LET st == store(c, c.s, f)
    IN  IF st.failed THEN st ELSE setHashIndexer(st, key, pair, FALSE)

hsetnx(c, key, pair, f) ==
    LET ix == setHashIndexer(c, key, pair, TRUE)
    IN  IF ix.res = 1 THEN store(ix, c.s, f) ELSE ix

RECURSIVE hmset(_, _, _, _, _)
hmset(c, key, ins, i, f) ==
    IF i > Len(ins) THEN c
    ELSE LET st == store(c, c.s, f)
         IN  IF st.failed THEN st
             ELSE hmset([setHashIndexer(st, key, ins[i], FALSE) EXCEPT !.res = 0],
                        key, ins, i + 1, f)

RECURSIVE hdel(_, _, _, _, _)
hdel(c, key, args, i, f) ==
    IF i > Len(args) THEN c
    ELSE LET d == hashHDel(c.s.idx, key, args[i][1])
             st == store([c EXCEPT !.s.idx = d.idx], c.s, f)
         IN  IF d.ok # 1 THEN hdel(c, key, args, i + 1, f)
             ELSE IF st.failed THEN st
             ELSE hdel([st EXCEPT !.res = @ + 1], key, args, i + 1, f)

hclear(c, key, f) ==
    LET st == store(c, c.s, f)
    IN  IF st.failed THEN st
        ELSE [st EXCEPT !.s = HState(hashHClear(st.s.idx, key), MapDel(st.s.exp, key))]

hexpire(c, key, dur, t, f) ==
    LET st == store(c, c.s, f)
    IN  IF st.failed THEN st
        ELSE [st EXCEPT !.s.exp = MapPut(@, key, t + dur)]

\* the part of a writer that runs between hashIndex.mu.Lock() and Unlock()
underLock(call, ins, s, t, f) ==
    CASE call.op = "HSet" -> hset(HCtx(s), call.key, ins[1], f)
      [] call.op = "HSetNx" -> hsetnx(HCtx(s), call.key, ins[1], f)
      [] call.op = "HMSet" -> hmset(HCtx(s), call.key, ins, 1, f)
      [] call.op = "HDel" -> hdel(HCtx(s), call.key, ins, 1, f)
      [] call.op = "HClear" -> hclear(HCtx(s), call.key, f)
      [] call.op = "HExpire" -> hexpire(HCtx(s), call.key, call.dur, t, f)

\* a whole call with nothing running beside it, whose f-th db.store fails: the
\* state it leaves, res and err
wholeCall(call, s, t, mode, f) ==
    LET p == beforeLock(call, s, t, mode)
    IN  IF p.done THEN [HCtx(p.s) EXCEPT !.err = p.err]
        ELSE underLock(call, p.ins, p.s, t, f)

\* a whole call with nothing running beside it and no failing store
serial(call, s, t, mode) ==
    LET p == beforeLock(call, s, t, mode)
    IN  IF p.done THEN p.s ELSE underLock(call, p.ins, p.s, t, 0).s

RECURSIVE serialRun(_, _, _, _, _)
serialRun(calls, order, s, t, mode) ==
    IF order = <<>> THEN s
    ELSE serialRun(calls, Tail(order), serial(calls[Head(order)], s, t, mode), t, mode)

Orders(n) == {p \in [1..n -> 1..n] : \A i, j \in 1..n : p[i] = p[j] => i = j}

\* the field-to-value mappings the calls can end with when run one after another
SerialResults(calls, s, t, mode) ==
    {serialRun(calls, p, s, t, mode).idx : p \in Orders(Len(calls))}

\* ------------------------------------------- hash entries in the log files
\* (KeyOnlyMemMode: the index holds the file id and offset of each field's entry)
\* values as byte strings
FileVals == {<<"x">>, <<"y", "y">>}

\* storage.NewEntry(key, value, field, Hash, HashHSet)
NewEntry(field, value) == [field |-> field, value |-> value]

\* the header stands for the crc, the type, the sizes, the key and the field
entrySize(e) == EntryHeaderSize + Len(e.value)

\* The hash datatype on disk: entries by <<file id, offset>>, the active file
\* and its write offset, and the index of the key "H"
NoDisk ==
    [files |-> [p \in {} |-> NewEntry("f1", <<>>)],
     active |-> [Id |-> 0, Offset |-> 0],
     index |-> [fd \in {} |-> [FileId |-> 0, Offset |-> 0]]]

\* db.store: rotates the active file when the entry would exceed the budget,
\* appends the entry at the write offset and advances the offset
storeEntry(d, e) ==
    LET act == IF d.active.Offset + entrySize(e) > BlockSize
               THEN [Id |-> d.active.Id + 1, Offset |-> 0]
               ELSE d.active
    IN  [d EXCEPT !.files = MapPut(@, <<act.Id, act.Offset>>, e),
                  !.active = [act EXCEPT !.Offset = @ + entrySize(e)]]

\* setHashIndexer with the index entry it builds from the active file
setHashIndexerAt(d, e, onlyNotExist) ==
    LET idx == [FileId |-> d.active.Id, Offset |-> d.active.Offset - entrySize(e)]
        exist == e.field \in DOMAIN d.index
    IN  IF exist /\ onlyNotExist THEN [d |-> d, res |-> 0]
        ELSE [d |-> [d EXCEPT !.index = MapPut(@, e.field, idx)],
              res |-> IF exist THEN 0 ELSE 1]

\* HSet in KeyOnlyMemMode, no failing store
diskHSet(d, field, value) ==
    LET e == NewEntry(field, value)
    IN  setHashIndexerAt(storeEntry(d, e), e, FALSE)

\* HSetNx in KeyOnlyMemMode, no failing store
diskHSetNx(d, field, value) ==
    LET e == NewEntry(field, value)
        r == setHashIndexerAt(d, e, TRUE)
    IN  IF r.res = 1 THEN [d |-> storeEntry(r.d, e), res |-> 1] ELSE r

\* the value of the entry that starts at the index entry's position; nil when
\* no entry starts there (the read fails its CRC check or is out of the file)
readValFromDbFile(d, idx) ==
    IF <<idx.FileId, idx.Offset>> \in DOMAIN d.files
    THEN d.files[<<idx.FileId, idx.Offset>>].value
    ELSE <<>>

\* HGet in KeyOnlyMemMode of a key with no deadline
diskHGet(d, field) ==
    IF field \in DOMAIN d.index THEN readValFromDbFile(d, d.index[field]) ELSE <<>>

\* ------------------------------------------------------------ hash actions
NoCall == Call("none", "H", <<>>, 0)

IdleThread == [busy |-> FALSE, call |-> NoCall, ins |-> <<>>]

NoHist == [base |-> HState(NoHashes, NoExpires), calls |-> <<>>]

NoHLast == [op |-> "none", intact |-> TRUE]

Pairs == {<<fd, v>> : fd \in Fields, v \in FieldVals}

\* one to MaxArgs pairs, the fields in their order
PairSeqs ==
    {<<p>> : p \in Pairs}
        \cup (IF MaxArgs >= 2
              THEN {<<<<"f1", v>>, <<"f2", w>>>> : v \in FieldVals, w \in FieldVals}
              ELSE {})

FieldSeqs ==
    {<<>>} \cup {<<<<fd, NilVal>>>> : fd \in Fields}
        \cup (IF MaxArgs >= 2 THEN {<<<<"f1", NilVal>>, <<"f2", NilVal>>>>} ELSE {})

HashRest ==
    /\ hidx = NoHashes
    /\ hexpires = NoExpires
    /\ now = 0
    /\ hpc = [t \in Threads |-> IdleThread]
    /\ hist = NoHist
    /\ hlast = NoHLast
    /\ hdisk = NoDisk
    /\ hrd = [t \in Threads |-> NoRead]
    /\ hret = NoRet

\* hist is kept until the last running call returns
Settle(pc2, h2) ==
    hist' = IF \A t \in Threads : ~pc2[t].busy THEN NoHist ELSE h2

\* Threads are interchangeable: a thread is free to call when it is in no call
\* and every thread before it is in one
Free(t) == ~hpc[t].busy /\ \A u \in Threads : u < t => hpc[u].busy

\* thread t calls a writer, which runs up to its hashIndex.mu.Lock()
Begin(t, call) ==
    LET s == HState(hidx, hexpires)
        p == beforeLock(call, s, now, idxMode)
        h2 == [base |-> IF hist.calls = <<>> THEN s ELSE hist.base,
               calls |-> Append(hist.calls, call)]
        pc2 == [hpc EXCEPT ![t] = IF p.done THEN IdleThread
                                  ELSE [busy |-> TRUE, call |-> call, ins |-> p.ins]]
    IN  /\ Len(hist.calls) < MaxBatch
        /\ ioFails < MaxIoFail
        /\ hidx' = p.s.idx
        /\ hexpires' = p.s.exp
        /\ hpc' = pc2
        /\ Settle(pc2, h2)
        /\ UNCHANGED <<now, idxMode, hlast, hdisk, readVars, listVars, btreeVars>>

HSet ==
    \E t \in Threads, p \in Pairs :
        /\ Free(t)
        /\ Begin(t, Call("HSet", "H", <<p>>, 0))

HSetNx ==
    \E t \in Threads, p \in Pairs :
        /\ Free(t)
        /\ Begin(t, Call("HSetNx", "H", <<p>>, 0))

HMSet ==
    \E t \in Threads, ps \in PairSeqs :
        /\ Free(t)
        /\ Begin(t, Call("HMSet", "H", ps, 0))

HDel ==
    \E t \in Threads, fs \in FieldSeqs :
        /\ Free(t)
        /\ Begin(t, Call("HDel", "H", fs, 0))

HClear ==
    \E t \in Threads :
        /\ Free(t)
        /\ Begin(t, Call("HClear", "H", <<>>, 0))

HExpire ==
    \E t \in Threads, dur \in 0..MaxDuration :
        /\ Free(t)
        /\ Begin(t, Call("HExpire", "H", <<>>, dur))

\* thread t takes the write lock, runs its locked part and returns; one of the
\* db.store calls of a writer that runs alone may fail
HLocked ==
    \E t \in Threads, f \in 0..MaxArgs :
        LET c == underLock(hpc[t].call, hpc[t].ins, HState(hidx, hexpires), now, f)
            pc2 == [hpc EXCEPT ![t] = IdleThread]
        IN  /\ hpc[t].busy
            /\ ioFails < MaxIoFail
            /\ f # 0 => Len(hist.calls) = 1
            /\ c.failed = (f # 0)
            /\ hidx' = c.s.idx
            /\ hexpires' = c.s.exp
            /\ hpc' = pc2
            /\ ioFails' = ioFails + (IF c.failed THEN 1 ELSE 0)
            /\ hlast' = IF c.failed THEN [op |-> hpc[t].call.op, intact |-> c.intact]
                        ELSE hlast
            /\ Settle(pc2, hist)
            /\ UNCHANGED <<now, idxMode, hdisk, readVars, trees, count, deque, last, ldisk, chanVars, btreeVars>>

\* a second passes while no call is running
Tick ==
    /\ \A t \in Threads : ~hpc[t].busy
    /\ now < MaxNow
    /\ ioFails < MaxIoFail
    /\ now' = now + 1
    /\ UNCHANGED <<hidx, hexpires, idxMode, hpc, hist, hlast, hdisk, readVars, listVars, btreeVars>>

HashNext ==
    \/ HSet \/ HSetNx \/ HMSet \/ HDel \/ HClear \/ HExpire \/ HLocked \/ Tick

\* ------------------------------------- hash actions on the log files
DiskHSet ==
    \E fd \in Fields, v \in FileVals :
        /\ Cardinality(DOMAIN hdisk.files) < MaxAppend
        /\ hdisk' = diskHSet(hdisk, fd, v).d
        /\ UNCHANGED <<hidx, hexpires, now, idxMode, hpc, hist, hlast, readVars>>
        /\ UNCHANGED <<listVars, btreeVars>>

DiskHSetNx ==
    \E fd \in Fields, v \in FileVals :
        /\ Cardinality(DOMAIN hdisk.files) < MaxAppend
        /\ hdisk' = diskHSetNx(hdisk, fd, v).d
        /\ UNCHANGED <<hidx, hexpires, now, idxMode, hpc, hist, hlast, readVars>>
        /\ UNCHANGED <<listVars, btreeVars>>

HashDiskNext == DiskHSet \/ DiskHSetNx

\* ------------------------------------------------- hash reads and expiry
Reading(t) == hrd[t].op # "idle"

\* HSet or HExpire from entry to return, while no read holds the lock
HWrite ==
    \E call \in {Call("HSet", "H", <<p>>, 0) : p \in Pairs}
                 \cup {Call("HExpire", "H", <<>>, dur) : dur \in 1..MaxDuration} :
        LET c == wholeCall(call, HState(hidx, hexpires), now, idxMode, 0)
        IN  /\ \A t \in Threads : ~Reading(t)
            /\ hidx' = c.s.idx
            /\ hexpires' = c.s.exp
            /\ UNCHANGED <<now, idxMode, hpc, hist, hlast, hdisk, readVars>>
            /\ UNCHANGED <<listVars, btreeVars>>

\* a read takes hashIndex.mu.RLock() and runs checkExpired, which clears an
\* expired key under that read lock, whatever the other readers are doing
HRead ==
    \E t \in Threads, rc \in ReadCalls :
        LET c == checkExpired(HState(hidx, hexpires), "H", now)
        IN  /\ ~Reading(t) /\ \A u \in Threads : u < t => Reading(u)
            /\ hidx' = c.s.idx
            /\ hexpires' = c.s.exp
            /\ hrd' = [u \in Threads |->
                        IF u = t
                        THEN Reader(rc[1], rc[2], c.expired,
                                    {afterCheck(rc[1], c.s, "H", rc[2], now)})
                        ELSE IF Reading(u) /\ c.expired
                        THEN [hrd[u] EXCEPT
                                !.raced = TRUE,
                                !.lin = @ \cup {afterCheck(hrd[u].op, c.s, "H", hrd[u].fd, now)}]
                        ELSE hrd[u]]
            /\ UNCHANGED <<now, idxMode, hpc, hist, hlast, hdisk, hret>>
            /\ UNCHANGED <<listVars, btreeVars>>

\* what the read of thread t returns now: a read that ran while the index was
\* being cleared has any outcome of the data race
readResults(me) ==
    LET cur == afterCheck(me.op, HState(hidx, hexpires), "H", me.fd, now)
    IN  IF me.expired THEN {Ret(me.op, absentResult(me.op), FALSE)}
        ELSE IF me.raced
        THEN {Ret(me.op, v, FALSE) : v \in me.lin \cup {cur}}
                 \cup {Ret(me.op, absentResult(me.op), TRUE)}
        ELSE {Ret(me.op, cur, FALSE)}

\* the read returns; deferred hashIndex.mu.RUnlock()
HReadReturn ==
    \E t \in Threads :
        /\ Reading(t)
        /\ hret' \in readResults(hrd[t])
        /\ hrd' = [hrd EXCEPT ![t] = NoRead]
        /\ UNCHANGED <<hidx, hexpires, now, idxMode, hpc, hist, hlast, hdisk>>
        /\ UNCHANGED <<listVars, btreeVars>>

HashReadNext == HWrite \/ HRead \/ HReadReturn \/ Tick

\* ============================================================= MemoryBTree
\* keys are single bytes, ordered as bytes.Compare orders them
BKeys == 1..MaxBKey
BPos == {"p1", "p2"}

\* a nil *wal.ChunkPosition
NoPos == "nil"

newBTree == [k \in {} |-> NoPos]

\* sync.RWMutex: the thread holding it for writing (0: none), the threads
\* holding it for reading
NoLock == [w |-> 0, r |-> {}]

\* A thread of the index: the method it is in ("idle": none), the method's key
\* and position, for Ascend/Descend the item at which f returns false,
\* whether the tree was written while the method was reading it, and (lin) what
\* the method's read has been able to find in the tree since it began
BThread(op, key, pos, n) ==
    [op |-> op, key |-> key, pos |-> pos, n |-> n, raced |-> FALSE, lin |-> {}]

BIdle == BThread("idle", 1, NoPos, 0)

btreeGet(tree, key) == IF key \in DOMAIN tree THEN tree[key] ELSE NoPos

\* what a Get or a Size that runs alone returns
readOf(tree, me) ==
    IF me.op = "Get" THEN <<btreeGet(tree, me.key)>> ELSE <<Cardinality(DOMAIN tree)>>

\* the items from key k upward (step 1) or downward (step -1), up to n of them
RECURSIVE walk(_, _, _, _)
walk(tree, k, step, n) ==
    IF k \notin BKeys \/ n = 0 THEN <<>>
    ELSE IF k \in DOMAIN tree
         THEN <<<<k, tree[k]>>>> \o walk(tree, k + step, step, n - 1)
         ELSE walk(tree, k + step, step, n)

\* the threads that are reading the tree without holding the lock
Unlocked(pc) == {t \in Threads : pc[t].op \in {"Get", "Size"}}

BTreeInit ==
    /\ btree = newBTree
    /\ block = NoLock
    /\ bpc = [t \in Threads |-> BIdle]
    /\ bret = [op |-> "none", val |-> <<>>]

\* Put: mt.lock.Lock()
BPut ==
    \E t \in Threads, key \in BKeys, pos \in BPos :
        /\ bpc[t].op = "idle"
        /\ block = NoLock
        /\ block' = [block EXCEPT !.w = t]
        /\ bpc' = [bpc EXCEPT ![t] = BThread("Put", key, pos, 0)]
        /\ UNCHANGED <<btree, bret, listVars, hashVars>>

\* Delete: mt.lock.Lock()
BDelete ==
    \E t \in Threads, key \in BKeys :
        /\ bpc[t].op = "idle"
        /\ block = NoLock
        /\ block' = [block EXCEPT !.w = t]
        /\ bpc' = [bpc EXCEPT ![t] = BThread("Delete", key, NoPos, 0)]
        /\ UNCHANGED <<btree, bret, listVars, hashVars>>

\* Put / Delete: ReplaceOrInsert or Delete on the tree, return the old position,
\* deferred mt.lock.Unlock()
BWrite ==
    \E t \in Threads :
        LET me == bpc[t]
        IN  /\ me.op \in {"Put", "Delete"}
            /\ block.w = t
            /\ btree' = IF me.op = "Put" THEN MapPut(btree, me.key, me.pos)
                        ELSE MapDel(btree, me.key)
            /\ bret' = [op |-> me.op,
                        val |-> IF me.op = "Put" THEN <<btreeGet(btree, me.key)>>
                                ELSE <<btreeGet(btree, me.key), me.key \in DOMAIN btree>>]
            /\ block' = NoLock
            /\ bpc' = [u \in Threads |->
                        IF u = t THEN BIdle
                        ELSE IF u \in Unlocked(bpc)
                        THEN [bpc[u] EXCEPT !.raced = TRUE,
                                            !.lin = @ \cup {readOf(btree', bpc[u])}]
                        ELSE bpc[u]]
            /\ UNCHANGED <<listVars, hashVars>>

\* Get: enters mt.tree.Get without taking the lock
BGet ==
    \E t \in Threads, key \in BKeys :
        /\ bpc[t].op = "idle"
        /\ bpc' = [bpc EXCEPT ![t] = [BThread("Get", key, NoPos, 0)
                                        EXCEPT !.lin = {<<btreeGet(btree, key)>>}]]
        /\ UNCHANGED <<btree, block, bret, listVars, hashVars>>

\* Size: enters mt.tree.Len without taking the lock
BSize ==
    \E t \in Threads :
        /\ bpc[t].op = "idle"
        /\ bpc' = [bpc EXCEPT ![t] = [BThread("Size", 1, NoPos, 0)
                                        EXCEPT !.lin = {<<Cardinality(DOMAIN btree)>>}]]
        /\ UNCHANGED <<btree, block, bret, listVars, hashVars>>

\* Ascend: mt.lock.RLock()
BAscend ==
    \E t \in Threads, n \in 1..MaxBKey :
        /\ bpc[t].op = "idle"
        /\ block.w = 0
        /\ block' = [block EXCEPT !.r = @ \cup {t}]
        /\ bpc' = [bpc EXCEPT ![t] = BThread("Ascend", 1, NoPos, n)]
        /\ UNCHANGED <<btree, bret, listVars, hashVars>>

\* Descend: mt.lock.RLock()
BDescend ==
    \E t \in Threads, n \in 1..MaxBKey :
        /\ bpc[t].op = "idle"
        /\ block.w = 0
        /\ block' = [block EXCEPT !.r = @ \cup {t}]
        /\ bpc' = [bpc EXCEPT ![t] = BThread("Descend", 1, NoPos, n)]
        /\ UNCHANGED <<btree, bret, listVars, hashVars>>

\* what a read of the tree yields: a read that raced with a write yields any
\* value of its type
ReadResults(me) ==
    CASE me.op = "Get" ->
            IF me.raced THEN {<<p>> : p \in BPos \cup {NoPos}}
            ELSE {readOf(btree, me)}
      [] me.op = "Size" ->
            IF me.raced THEN {<<n>> : n \in 0..MaxBKey}
            ELSE {readOf(btree, me)}
      [] me.op = "Ascend" -> {walk(btree, 1, 1, me.n)}
      [] me.op = "Descend" -> {walk(btree, MaxBKey, -1, me.n)}

\* Get / Size / Ascend / Descend: the read ends and the method returns
\* (Ascend / Descend: deferred mt.lock.RUnlock())
BReturn ==
    \E t \in Threads :
        /\ bpc[t].op \in {"Get", "Size", "Ascend", "Descend"}
        /\ \E v \in ReadResults(bpc[t]) : bret' = [op |-> bpc[t].op, val |-> v]
        /\ block' = [block EXCEPT !.r = @ \ {t}]
        /\ bpc' = [bpc EXCEPT ![t] = BIdle]
        /\ UNCHANGED <<btree, listVars, hashVars>>

BTreeNext ==
    \/ BPut \/ BDelete \/ BWrite \/ BGet \/ BSize \/ BAscend \/ BDescend \/ BReturn

\* ========================================================= specifications
\* an empty database whose index mode is one of modes
Init(modes) == ListInit /\ idxMode \in modes /\ HashRest /\ BTreeInit

InitList == Init({"KeyOnlyMemMode"})

InitHash == Init(IdxModes)

InitBTree == Init({"KeyOnlyMemMode"})

InitHashDisk == Init({"KeyOnlyMemMode"})

InitListDisk == Init({"KeyOnlyMemMode"})

InitHashRead == Init({"KeyOnlyMemMode"})

InitListChan == Init({"KeyOnlyMemMode"})

\* the list commands over a reliable log
SpecList == InitList /\ [][ListNext]_vars

\* the list commands over a log whose writes may fail
SpecListIO == InitList /\ [][ListNextIO]_vars

\* concurrent hash writers; a db.store may fail
SpecHash == InitHash /\ [][HashNext]_vars

\* concurrent users of one MemoryBTree
SpecBTree == InitBTree /\ [][BTreeNext]_vars

\* HSet and HSetNx in KeyOnlyMemMode with the log files they write
SpecHashDisk == InitHashDisk /\ [][HashDiskNext]_vars

\* hash reads of a key with a deadline, two reading threads
SpecHashRead == InitHashRead /\ [][HashReadNext]_vars

\* the list writers with the log files they write and the discards they send;
\* log writes may fail
SpecListDisk == InitListDisk /\ [][ListDiskNext]_vars

\* LPush, LPop and RPop as threads, with the list lock, the discard channel and
\* a drainer that may stall; log writes may fail
SpecListChan == InitListChan /\ [][ListChanNext]_vars /\ ListChanFair

\* ================================================================== claims
Idx(i) == IF i >= 0 THEN GoInt(FALSE, 0, i) ELSE GoInt(TRUE, 0, 0 - i)

\* C1: while no log write fails, for every list key LLen is tailSeq - headSeq - 1,
\* is not negative, and is the number of elements pushed onto the key minus the
\* number of elements popped from it.
C1_LLenIsPushedMinusPopped ==
    \A k \in ListKeys :
        LET m == metaOf(trees, k)
            n == LLen(trees, k)
        IN  /\ n = count[k]
            /\ n >= 0
            /\ u32add(u32add(m.headSeq, u32(n)), u32(1)) = m.tailSeq

\* C1 witness: a list of one element whose head has moved right of its initial
\* value (two right pushes, then a left pop).
C1_Witness ==
    \E k \in ListKeys :
        /\ count[k] = 1 /\ LLen(trees, k) = 1
        /\ u32lt(initialListSeq, metaOf(trees, k).headSeq)

\* C2 (as claimed): LRange(k, 0, -1) returns the reference deque's contents, and
\* a pop that returns without error returns the reference deque's head or tail.
C2_DequeRefinement ==
    /\ \A k \in DOMAIN trees :
        LET r == LRange(trees, k, Idx(0), Idx(-1))
        IN  /\ r.vals = deque[k]
            /\ deque[k] # <<>> => r.err = "nil"
    /\ (last.op \in {"LPop", "RPop"} /\ last.err = "nil") => last.val = last.ref

\* C3 (as claimed): every key whose list holds at least one element is among
\* the keys GetListKeys returns.
C3_GetListKeysComplete ==
    \A k \in ListKeys : LLen(trees, k) > 0 => k \in GetListKeys(trees)

C5_LIndexNegativeEquivalence ==
    \A k \in DOMAIN trees :
        LET n == LLen(trees, k)
        IN  \A i \in 0..(n - 1) :
                /\ LIndex(trees, k, Idx(i)) = LIndex(trees, k, Idx(i - n))
                /\ LIndex(trees, k, Idx(i)).err = "nil"

\* C6 (as claimed): for every existing list of length n and every index outside
\* [-n, n), LIndex and LSet return ErrWrongIndex, and LSet writes no log entry
\* and changes no index entry.
C6_OutOfRangeIsWrongIndex ==
    \A k \in DOMAIN trees : \A index \in IndexInputs :
        ~inRange(index, LLen(trees, k)) =>
            /\ LIndex(trees, k, index) = [val |-> <<>>, err |-> "ErrWrongIndex"]
            /\ \A v \in Vals :
                LET c == lset(trees, k, index, <<v>>, 0)
                IN  c.err = "ErrWrongIndex" /\ c.w = 0 /\ c.tr = trees

\* C7 (as claimed): when a db.store of a hash writer (HSet, HSetNx, HMSet, HDel,
\* HClear, HExpire) fails, the hash index and the expiry map are as they were
\* before that entry was attempted.
C7_FailedStoreLeavesIndex == hlast.op # "none" => hlast.intact

\* C8 (as claimed): when hash writers that ran together have all returned, the
\* field-to-value mapping is the result of running them in some sequential
\* order from the state they started in.
C8_HashWritersSerialized ==
    [][(Len(hist.calls) >= 2 /\ hist' = NoHist /\ ioFails' = ioFails)
          => hidx' \in SerialResults(hist.calls, hist.base, now, idxMode)]_vars

\* C9 (as claimed): no thread is inside Get, Size, Ascend or Descend while
\* another is between the Lock and the Unlock of a Put or Delete.
C9_NoReadWhileWriteLocked ==
    \A t1 \in Threads, t2 \in Threads :
        (block.w = t1 /\ bpc[t1].op \in {"Put", "Delete"})
            => bpc[t2].op \notin {"Get", "Size", "Ascend", "Descend"}

\* what LMove(k, k, srcIsLeft, ~srcIsLeft) with no failing write does to a list
\* that LRange(k, 0, -1) reads as xs
Rotates(k, xs, srcIsLeft) ==
    LET c == lmove(trees, k, k, srcIsLeft, ~srcIsLeft, 0)
        n == Len(xs)
        el == IF srcIsLeft THEN xs[1] ELSE xs[n]
        rest == IF srcIsLeft THEN Tail(xs) ELSE SubSeq(xs, 1, n - 1)
    IN  /\ c.err = "nil"
        /\ c.val = el
        /\ LRange(c.tr, k, Idx(0), Idx(-1))
              = [vals |-> IF srcIsLeft THEN Append(rest, el) ELSE <<el>> \o rest,
                 err |-> "nil"]
        /\ LLen(c.tr, k) = LLen(trees, k)

\* C11: on a list [a1, ..., an] with n >= 1, LMove(k, k, left, right) returns a1
\* and leaves [a2, ..., an, a1]; LMove(k, k, right, left) returns an and leaves
\* [an, a1, ..., a(n-1)]; the length is unchanged in both cases.
C11_LMoveSameKeyRotates ==
    \A k \in DOMAIN trees :
        LET r == LRange(trees, k, Idx(0), Idx(-1))
        IN  (r.err = "nil" /\ Len(r.vals) >= 1)
                => (Rotates(k, r.vals, TRUE) /\ Rotates(k, r.vals, FALSE))

\* C11 witness: a list of three elements, the first unlike the last, whose head
\* sequence has moved, and which LMove rotates.
C11_Witness ==
    \E k \in DOMAIN trees :
        LET r == LRange(trees, k, Idx(0), Idx(-1))
        IN  /\ r.err = "nil" /\ Len(r.vals) = 3 /\ r.vals[1] # r.vals[3]
            /\ metaOf(trees, k).headSeq # initialListSeq
            /\ Rotates(k, r.vals, TRUE) /\ Rotates(k, r.vals, FALSE)

\* LRange(k, start, end) of a list of n >= 1 elements with start >= n
StartBeyondEnd(k, start, end) == LRange(trees, k, Idx(start), Idx(end))

\* LRange(k, s, e) with 0 <= s < n <= e returns the elements s .. n-1
StopBeyondEnd(k, n) ==
    \A s0 \in 0..(n - 1) : \A e0 \in n..(n + MaxIdx) :
        LRange(trees, k, Idx(s0), Idx(e0)) = LRange(trees, k, Idx(s0), Idx(n - 1))

\* C12 (as claimed): on an existing list of n elements, LRange with a start
\* index beyond the last element returns an empty list and no error; and with
\* 0 <= s < n <= e it returns the elements s through n-1 without error.
C12_LRangeBeyondEnd ==
    \A k \in DOMAIN trees :
        LET n == LLen(trees, k)
            all == LRange(trees, k, Idx(0), Idx(-1))
        IN  n >= 1 =>
              /\ \A s0 \in n..(n + MaxIdx) : \A e0 \in s0..(n + MaxIdx) :
                    StartBeyondEnd(k, s0, e0) = [vals |-> <<>>, err |-> "nil"]
              /\ StopBeyondEnd(k, n)
              /\ \A s0 \in 0..(n - 1) :
                    LRange(trees, k, Idx(s0), Idx(n - 1))
                        = [vals |-> SubSeq(all.vals, s0 + 1, n), err |-> "nil"]

\* thread t returns from the method op in this step
Returns(t, op) == bpc[t].op = op /\ bpc'[t].op = "idle"

\* C13 (as claimed): the index behaves as a map from keys to positions: put(k, p)
\* returns the position it superseded (none if absent) and makes p the position
\* of k; delete(k) returns (oldPos, true) iff k was present and makes k absent;
\* no other step changes the map; get(k) returns the position the map gave k at
\* some moment of the call, and size() the number of live keys at some moment
\* of the call.
C13_BTreeRefinesMap ==
    [][/\ \A t \in Threads :
            LET me == bpc[t]
                old == btreeGet(btree, me.key)
            IN  /\ Returns(t, "Put") =>
                       bret'.val = <<old>> /\ btree' = MapPut(btree, me.key, me.pos)
                /\ Returns(t, "Delete") =>
                       /\ bret'.val = <<old, old # NoPos>>
                       /\ btree' = MapDel(btree, me.key)
                /\ (Returns(t, "Get") \/ Returns(t, "Size")) => bret'.val \in me.lin
       /\ (\A t \in Threads : ~Returns(t, "Put") /\ ~Returns(t, "Delete"))
              => btree' = btree]_vars

\* the deadline of key has passed
Expired(key) == key \in DOMAIN hexpires /\ now > hexpires[key]

\* field is in the index of key
HasField(idx, key, fd) == key \in DOMAIN idx /\ fd \in DOMAIN idx[key]

\* the values a caller can pass: checkKeyValue accepts an empty value
AnyVals == FieldVals \cup {NilVal}

\* C14 (as claimed): in both index modes, HSet on a key that has not expired
\* returns 1 when the field was not in the hash before the call and 0 when it
\* was, whatever the value.
C14_HSetReturnsOneIffNew ==
    \A fd \in Fields, v \in AnyVals :
        LET c == wholeCall(Call("HSet", "H", <<<<fd, v>>>>, 0),
                           HState(hidx, hexpires), now, idxMode, 0)
        IN  ~Expired("H") =>
                /\ c.err = "nil"
                /\ c.res = IF HasField(hidx, "H", fd) THEN 0 ELSE 1

\* C15 (as claimed): HSetNx on a key that has not expired returns 1 exactly
\* when the field was absent before the call, and then the field is in the index
\* and its entry is in the log; when the field exists it returns 0, appends no
\* entry and leaves the index as it was.  The db.store of the call may fail.
C15_HSetNxOneIffInserted ==
    \A fd \in Fields, v \in FieldVals, f \in 0..1 :
        LET s == HState(hidx, hexpires)
            c == wholeCall(Call("HSetNx", "H", <<<<fd, v>>>>, 0), s, now, idxMode, f)
        IN  ~Expired("H") =>
                IF HasField(hidx, "H", fd)
                THEN c.res = 0 /\ c.w = 0 /\ c.s = s
                ELSE c.res = 1 => /\ HasField(c.s.idx, "H", fd)
                                  /\ c.w = 1 /\ ~c.failed

\* r is the outcome of a call that stored <<fd, v>> on disk d: the index entry of
\* fd is the position of an entry appended by the call, that entry is the
\* call's, and the next HGet returns v
PointsAtOwnEntry(d, r, fd, v) ==
    LET idx == r.d.index[fd]
        at == <<idx.FileId, idx.Offset>>
    IN  /\ at \in DOMAIN r.d.files \ DOMAIN d.files
        /\ r.d.files[at] = NewEntry(fd, v)
        /\ diskHGet(r.d, fd) = v

\* C16 (as claimed): in key-only index mode, after HSet, or HSetNx returning 1,
\* stores value v without error, the field's index entry holds the file id and
\* offset at which that entry was appended, and the next HGet returns v.
C16_IndexPointsAtAppendedEntry ==
    \A fd \in Fields, v \in FileVals :
        /\ PointsAtOwnEntry(hdisk, diskHSet(hdisk, fd, v), fd, v)
        /\ LET r == diskHSetNx(hdisk, fd, v)
           IN  r.res = 1 => PointsAtOwnEntry(hdisk, r, fd, v)

\* the field lists given to HDel: up to MaxArgs fields, repeats allowed
DelLists ==
    {<<>>} \cup {<<<<a, NilVal>>>> : a \in Fields}
        \cup {<<<<a, NilVal>>, <<b, NilVal>>>> : a \in Fields, b \in Fields}

\* C17 (as claimed): HDel on a key that has not expired returns the number of
\* listed fields that existed and were removed, appends exactly one delete entry
\* for each removed field and none for the others, and HLen afterwards is HLen
\* before less the returned count.  One db.store of the call may fail.
C17_HDelCountsRemoved ==
    \A fs \in DelLists, f \in 0..MaxArgs :
        LET s == HState(hidx, hexpires)
            c == wholeCall(Call("HDel", "H", fs, 0), s, now, idxMode, f)
            before == HLen(s, "H", now).n
            after == HLen(c.s, "H", now).n
            listed == {fs[i][1] : i \in 1..Len(fs)}
            removed == {fd \in listed : HasField(hidx, "H", fd) /\ ~HasField(c.s.idx, "H", fd)}
            logged == c.w - (IF c.failed THEN 1 ELSE 0)
        IN  ~Expired("H") =>
                /\ c.res = Cardinality(removed)
                /\ logged = Cardinality(removed)
                /\ after = before - c.res
                /\ \A fd \in Fields \ listed : HasField(hidx, "H", fd) = HasField(c.s.idx, "H", fd)

\* C18: LPushX and RPushX on a key that has no index tree return ErrKeyNotFound,
\* write no log entry, create no tree and leave every list as it was; LLen of
\* the key is then 0 and a further LPushX returns ErrKeyNotFound again.
C18_PushXOnMissingKeyIsNoOp ==
    /\ \A k \in ListKeys \ DOMAIN trees, values \in ValueSeqs, isLeft \in BOOLEAN, f \in 0..2 :
          LET c == pushX(trees, k, values, isLeft, f)
          IN  /\ c.err = "ErrKeyNotFound" /\ c.w = 0 /\ c.done = 0
              /\ c.tr = trees
              /\ LLen(c.tr, k) = 0
              /\ pushX(c.tr, k, values, TRUE, f).err = "ErrKeyNotFound"
    /\ (last.op \in {"LPushX", "RPushX"} /\ ~last.had) =>
          /\ last.err = "ErrKeyNotFound" /\ ~last.failed
          /\ last.key \notin DOMAIN trees
          /\ LLen(trees, last.key) = 0

\* C18 witness: LPushX or RPushX has just run on a key that has no tree, while
\* the other key holds a list.
C18_Witness ==
    /\ last.op \in {"LPushX", "RPushX"} /\ ~last.had
    /\ last.err = "ErrKeyNotFound"
    /\ last.key \notin DOMAIN trees
    /\ \E k \in DOMAIN trees : LLen(trees, k) > 0

\* C19 (as claimed): a hash read that starts when the deadline of the key has
\* passed finds the key expired, returns nil / false / 0 and leaves no deadline
\* record; every other read returns what the hash held at some moment since the
\* read checked the deadline.
C19_LazyExpiry ==
    [][\A t \in Threads :
        /\ (~Reading(t) /\ hrd'[t].op # "idle" /\ Expired("H"))
              => hrd'[t].expired /\ "H" \notin DOMAIN hexpires'
        /\ (Reading(t) /\ hrd'[t].op = "idle")
              => /\ ~hret'.fatal
                 /\ hret'.val \in
                      (IF hrd[t].expired THEN {absentResult(hrd[t].op)}
                       ELSE hrd[t].lin \cup {afterCheck(hrd[t].op, HState(hidx, hexpires),
                                                        "H", hrd[t].fd, now)})]_vars

\* the bytes of the entries es that lie in file fid
RECURSIVE BytesIn(_, _)
BytesIn(es, fid) ==
    IF es = {} THEN 0
    ELSE LET e == CHOOSE x \in es : TRUE
         IN  (IF e.fid = fid THEN e.size ELSE 0) + BytesIn(es \ {e}, fid)

\* C20: after any sequence of LPush/RPush/LPop/RPop/LSet/LMove, failed log
\* writes included, every discard sent names an entry that was appended, with
\* its file and size, no entry is sent twice, and for every list log file the
\* dead bytes added up by the discard tracker are at most the bytes written to
\* the file.
C20_DeadBytesWithinFile ==
    /\ ldisk.sent \subseteq ldisk.written
    /\ ~ldisk.resent
    /\ \A fid \in DOMAIN ldisk.dead :
          /\ ldisk.dead[fid] = BytesIn(ldisk.sent, fid)
          /\ ldisk.dead[fid] <= BytesIn(ldisk.written, fid)

\* C20 witness: an element, a list-meta record and a tombstone have been sent
\* to the discard tracker, for two log files.
C20_Witness ==
    /\ Cardinality({e.size : e \in ldisk.sent}) = 3
    /\ Cardinality(DOMAIN ldisk.dead) >= 2

\* C10 (as claimed): an LMove between two different keys leaves the sum of the
\* two lists' lengths as it was before the move.
C10_LMoveKeepsTotalLength ==
    (last.op = "LMove" /\ last.key # last.dst) =>
        LLen(trees, last.key) + LLen(trees, last.dst) = last.preLen + last.preDst
\* a pop of thread t returns in this step without error
PopReturns(t) ==
    /\ lpc[t].at = "send" /\ lpc'[t].at = "idle"
    /\ lpc[t].op \in {"LPop", "RPop"} /\ lpc[t].err = "nil"

\* C21: whatever the discard channel holds and whether or not the drainer ever
\* receives, an LPop/RPop that returns without error returns the element that
\* was at the popped end and releases the list lock; a thread holding the list
\* lock releases it, and a thread waiting for the list lock acquires it.
C21_DiscardNeverBlocks ==
    /\ [][\A t \in Threads :
            PopReturns(t) => (lret'.val = lpc[t].end /\ lmu' = 0)]_vars
    /\ \A t \in Threads : (lmu = t) ~> (lmu # t)
    /\ \A t \in Threads : (lpc[t].at = "wait") ~> (lmu = t)

\* C21 witness: a pop has returned its element after both of its discards were
\* dropped, the channel is still full, and the other thread has since called
\* and holds the list lock.
C21_Witness ==
    /\ lret.op \in {"LPop", "RPop"} /\ lret.val # <<>> /\ lret.drops >= 2
    /\ Len(valChan) = MaxChan
    /\ lmu # 0

\* the sequence numbers that have an element in the index of list k
indexedSeqs(tr, k) == {decodeListKey(b)[2] : b \in {x \in DOMAIN tr[k] : Len(x) = 5}}

\* C22 (as claimed): after every list operation, failed ones included, the
\* sequence numbers with an element in a list's index are exactly those strictly
\* between headSeq and tailSeq: none is indexed outside, and LIndex(k, i) returns
\* an element for every i in [0, LLen(k)).
C22_IndexMatchesMeta ==
    \A k \in DOMAIN trees :
        LET m == metaOf(trees, k)
        IN  /\ \A seq \in indexedSeqs(trees, k) : u32lt(m.headSeq, seq) /\ u32lt(seq, m.tailSeq)
            /\ \A i \in 0..(LLen(trees, k) - 1) : LIndex(trees, k, Idx(i)).err = "nil"

\* how many elements with value v the index of list k holds
held(tr, k, v) ==
    IF k \notin DOMAIN tr THEN 0
    ELSE Cardinality({b \in DOMAIN tr[k] : Len(b) = 5 /\ tr[k][b] = <<v>>})

\* the element at the end of src that LMove pops
srcEnd(tr, src, srcIsLeft) == LIndex(tr, src, IF srcIsLeft THEN Idx(0) ELSE Idx(-1))

\* C23 (as claimed): whichever log write of an LMove fails (or none), the lists
\* of src and dst together hold every value as many times as before the call,
\* and when LMove returns an error the element at the popped end of src is the
\* one that was there before the call.
C23_LMoveLosesNothing ==
    \A src \in DOMAIN trees, dst \in ListKeys, srcIsLeft \in BOOLEAN,
       dstIsLeft \in BOOLEAN, f \in 0..4 :
        LET c == lmove(trees, src, dst, srcIsLeft, dstIsLeft, f)
        IN  /\ \A v \in Vals :
                held(c.tr, src, v) + (IF dst = src THEN 0 ELSE held(c.tr, dst, v))
                  = held(trees, src, v) + (IF dst = src THEN 0 ELSE held(trees, dst, v))
            /\ c.err # "nil" => srcEnd(c.tr, src, srcIsLeft) = srcEnd(trees, src, srcIsLeft)

\* C24 (as claimed): under every interleaving of HExpire with HClear, HDel, HSet
\* and the other hash writers, every key that has a deadline in the hash expiry
\* map is a key of the hash index.
C24_DeadlineOnlyForExistingKey == DOMAIN hexpires \subseteq DOMAIN hidx

\* HSet (HSetNx when nx) of fd to v on the expired key "H", run alone with no
\* failing store, followed by HGet and HLen: HSetNx returns 1, HGet returns v and
\* HLen counts the one field written after the deadline
WriteAfterDeadline(fd, v, nx) ==
    LET call == Call(IF nx THEN "HSetNx" ELSE "HSet", "H", <<<<fd, v>>>>, 0)
        w == wholeCall(call, HState(hidx, hexpires), now, idxMode, 0)
        g == HGet(w.s, "H", fd, now)
        n == HLen(g.s, "H", now)
    IN  /\ nx => w.res = 1
        /\ g.val = v
        /\ n.n = 1

\* C25 (as claimed): when the deadline of a hash key has passed and the key has
\* not yet been lazily removed, an HSet or HSetNx of a field behaves as on a
\* fresh key: HSetNx returns 1, the next HGet of the field returns the value
\* written, and HLen counts only the field written after the deadline.
C25_WriteToExpiredKeyIsFresh ==
    (Expired("H") /\ \A t \in Threads : ~hpc[t].busy)
        => \A fd \in Fields, v \in FieldVals, nx \in BOOLEAN : WriteAfterDeadline(fd, v, nx)

\* C26 (as claimed): every step that changes the hash index or the hash expiry
\* map is taken while no thread holds hashIndex.mu for reading, the thread that
\* takes the step included: no read deletes an expired key under its read lock,
\* alone or beside another reader.
C26_NoMutationUnderReadLock ==
    [][(hidx' # hidx \/ hexpires' # hexpires)
          => \A t \in Threads : ~Reading(t) /\ ~(Reading(t))']_vars

============================================================================
